---- MODULE Spec2Model ----
(***************************************************************************)
(* Model of the two command-line tools of the repository:                  *)
(*   code_assistant.py  (cli, describe, change, fix, enhance, ask_llm)     *)
(*   application.py     (cli, describe, enhance, test)                     *)
(*                                                                         *)
(* One behaviour is one process run: the click group callback, then one    *)
(* command.  A command that talks to the model backend or to the user is   *)
(* split at those blocking points (the ollama.generate round trip and the  *)
(* click.confirm answer); everything the handler does between two          *)
(* blocking points is one step.                                            *)
(*                                                                         *)
(* Text is a sequence of tokens.  File contents and path components are    *)
(* sequences of one-character tokens; the fixed framing text of prompts    *)
(* and messages is kept as literal multi-character tokens.  A path is the  *)
(* sequence of its components (pathlib's parts below the project root).    *)
(* The file system is POSIX: write_text performs no newline translation.   *)
(***************************************************************************)
EXTENDS Integers, Sequences, FiniteSets, TLC

\* Bounds of the model: longest initial file content, most files in the tree.
MaxLen == 1
MaxFiles == 3

----------------------------------------------------------------------------
(* Text helpers *)

SeqsUpTo(S, n) == UNION {[1..k -> S] : k \in 0..n}

Min(a, b) == IF a < b THEN a ELSE b

\* s[:n]
Take(s, n) == SubSeq(s, 1, Min(n, Len(s)))

\* s[i:]  (1-based i)
Drop(s, i) == SubSeq(s, i, Len(s))

EndsWith(s, t) ==
    /\ Len(s) >= Len(t)
    /\ SubSeq(s, Len(s) - Len(t) + 1, Len(s)) = t

\* t occurs in s as one contiguous run of tokens
Contains(s, t) ==
    \E i \in 0..(Len(s) - Len(t)) : SubSeq(s, i + 1, i + Len(t)) = t

\* Code points of the characters that occur in path components.
Ord(c) ==
    CASE c = "-" -> 45
      [] c = "." -> 46
      [] c = "/" -> 47
      [] c = "A" -> 65
      [] c = "D" -> 68
      [] c = "E" -> 69
      [] c = "M" -> 77
      [] c = "R" -> 82
      [] c = "_" -> 95
      [] c = "a" -> 97
      [] c = "b" -> 98
      [] c = "d" -> 100
      [] c = "e" -> 101
      [] c = "m" -> 109
      [] c = "p" -> 112
      [] c = "s" -> 115
      [] c = "t" -> 116
      [] c = "x" -> 120
      [] c = "y" -> 121

\* Python's str.__lt__ : lexicographic by code point, a proper prefix first.
RECURSIVE LexLess(_, _)
LexLess(s, t) ==
    IF t = <<>> THEN FALSE
    ELSE IF s = <<>> THEN TRUE
    ELSE IF Ord(Head(s)) # Ord(Head(t)) THEN Ord(Head(s)) < Ord(Head(t))
    ELSE LexLess(Tail(s), Tail(t))

\* "\n".join(lines)
RECURSIVE JoinLines(_)
JoinLines(lines) ==
    IF lines = <<>> THEN <<>>
    ELSE IF Len(lines) = 1 THEN lines[1]
    ELSE lines[1] \o <<"\n">> \o JoinLines(Tail(lines))

----------------------------------------------------------------------------
(* Paths and the project tree *)

A_PY   == <<"a", ".", "p", "y">>
B_PY   == <<"b", ".", "p", "y">>
X_PY   == <<"x", ".", "p", "y">>
A_DIR  == <<"a">>
AB_DIR == <<"a", "-", "b">>
README == <<"R", "E", "A", "D", "M", "E", ".", "m", "d">>

\* Files the initial project tree may hold.
Universe ==
    { <<A_PY>>, <<A_DIR, B_PY>>, <<AB_DIR, X_PY>>, <<README>> }

\* FILE arguments a user may type: any of the above, or the directory "a".
FileArgs == Universe \cup { <<A_DIR>> }

\* Characters of initial file contents: "(" never parses as Python,
\* "\r" is a bare carriage return.
Alphabet == {"(", "\r"}
Texts == SeqsUpTo(Alphabet, MaxLen)

Trees ==
    UNION { [D -> Texts] : D \in {E \in SUBSET Universe : Cardinality(E) <= MaxFiles} }

\* str(path): the components joined by "/"
RECURSIVE StrOfPath(_)
StrOfPath(p) ==
    IF p = <<>> THEN <<>>
    ELSE IF Len(p) = 1 THEN p[1]
    ELSE p[1] \o <<"/">> \o StrOfPath(Tail(p))

\* path.name
Name(p) == p[Len(p)]

\* Directories are the proper, non-empty prefixes of the files' paths.
Dirs(fsys) ==
    UNION { { SubSeq(q, 1, k) : k \in 1..(Len(q) - 1) } : q \in DOMAIN fsys }

IsFile(fsys, p) == p \in DOMAIN fsys

IsDir(fsys, p) == \E q \in DOMAIN fsys : Len(q) > Len(p) /\ SubSeq(q, 1, Len(p)) = p

\* Path.exists(): true of files and of directories
Exists(fsys, p) == IsFile(fsys, p) \/ IsDir(fsys, p)

\* Universal-newline decoding done by text-mode reads: "\r\n" and "\r" become "\n".
RECURSIVE Universal(_)
Universal(s) ==
    IF s = <<>> THEN <<>>
    ELSE IF Head(s) = "\r" /\ Len(s) > 1 /\ s[2] = "\n"
         THEN <<"\n">> \o Universal(Drop(s, 3))
    ELSE IF Head(s) = "\r" THEN <<"\n">> \o Universal(Tail(s))
    ELSE <<Head(s)>> \o Universal(Tail(s))

\* Path.read_text(encoding="utf-8"): the decoded text, or an OSError
\* (a directory, a missing file).
read_text(fsys, p) ==
    IF IsFile(fsys, p) THEN [ok |-> TRUE, text |-> Universal(fsys[p])]
    ELSE [ok |-> FALSE, text |-> <<>>]

\* Path.suffix of a file name: from the last "." on, unless that "." is the
\* first or the last character.
LastDot(name) ==
    IF \E i \in 1..Len(name) : name[i] = "."
    THEN CHOOSE i \in 1..Len(name) :
            /\ name[i] = "."
            /\ \A j \in (i + 1)..Len(name) : name[j] # "."
    ELSE 0

Suffix(name) ==
    LET i == LastDot(name)
    IN IF i > 1 /\ i < Len(name) THEN Drop(name, i) ELSE <<>>

DOT_PY == <<".", "p", "y">>

\* write_text opening the file for append instead of truncating it
write_text_appending(fsys, p, text) ==
    [q \in DOMAIN fsys \cup {p} |-> IF q = p /\ p \in DOMAIN fsys THEN fsys[p] \o text
                                    ELSE IF q = p THEN text ELSE fsys[q]]

\* Path.write_text(text): create or truncate the file, then write the text.
write_text(fsys, p, text) ==
    [q \in DOMAIN fsys \cup {p} |-> IF q = p THEN text ELSE fsys[q]]

\* open(p, 'a').write(text)
append_text(fsys, p, text) ==
    [q \in DOMAIN fsys \cup {p} |-> IF q = p /\ p \in DOMAIN fsys THEN fsys[p] \o text
                                    ELSE IF q = p THEN text ELSE fsys[q]]

----------------------------------------------------------------------------
(* State *)

VARIABLES
    app,          \* which program runs: "code_assistant" or "application"
    root,         \* whether the --path directory exists
    fs,           \* the project tree: file path -> content on disk
    fs0,          \* the tree when the process started (history)
    pc,           \* position of the process
    cmd,          \* the command being run
    model,        \* ctx.obj["MODEL"]
    target,       \* the FILE argument, as a path below the project root
    param,        \* the INSTRUCTION / FEATURE argument
    content,      \* the text read from the target
    summaries,    \* describe: the per-file lines
    prompt,       \* the prompt handed to ask_llm
    backend,      \* what ollama.generate did (history)
    new_content,  \* what ask_llm returned
    answer,       \* what the user typed at the confirmation prompt
    calls,        \* the ollama.generate calls made, in order
    log           \* terminal and file events, in order

vars == <<app, root, fs, fs0, pc, cmd, model, target, param, content, summaries,
          prompt, backend, new_content, answer, calls, log>>

Ev(e, p, t) == [ev |-> e, path |-> p, text |-> t]

Echo(t) == Ev("echo", <<>>, t)

\* --model: the option's default; no command branches on the identifier.
Models == {"llama3"}

Instructions == { <<"add logging">> }

\* What the user may type at a click.confirm prompt (Enter alone is "").
Answers == {"y", "n", ""}

\* Texts the backend may generate.
Generated == { <<>>, <<"p", "\n">> }

NoOutcome == [kind |-> "none", has |-> FALSE, text |-> <<>>]

\* What one ollama.generate call may do: return a mapping with or without a
\* "response" entry, raise an Exception (transport, backend), or be cut by a
\* BaseException that is not an Exception (KeyboardInterrupt).
Outcomes ==
    { [kind |-> "return", has |-> TRUE, text |-> t] : t \in Generated }
    \cup { [kind |-> "return", has |-> FALSE, text |-> <<>>] }
    \cup { [kind |-> "Exception", has |-> FALSE, text |-> <<"timed out">>] }
    \cup { [kind |-> "BaseException", has |-> FALSE, text |-> <<"KeyboardInterrupt">>] }

----------------------------------------------------------------------------
(* code_assistant.py *)

\* ask_llm without its except clause: the backend's Exception leaves it
ask_llm_uncaught(o) ==
    IF o.kind = "return"
    THEN [raised |-> FALSE, value |-> IF o.has THEN o.text ELSE <<>>]
    ELSE [raised |-> TRUE, value |-> <<>>]

\* ask_llm: the try/except around ollama.generate.  "raised" tells whether
\* the call leaves ask_llm by an exception instead of a return value.
ask_llm(o) ==
    IF o.kind = "return"
    THEN [raised |-> FALSE, value |-> IF o.has THEN o.text ELSE <<>>]
    ELSE IF o.kind = "Exception"
    THEN [raised |-> FALSE, value |-> <<"Error communicating with Ollama: ">> \o o.text]
    ELSE [raised |-> TRUE, value |-> <<>>]

\* ast.parse succeeds on the text.  Over Alphabet a text fails to parse
\* exactly when it holds an unclosed "(".
Parses(text) == \A i \in 1..Len(text) : text[i] # "("

\* _summarise_python_file.  A text over Alphabet that parses has no docstring,
\* class or function, so parts is empty and "; ".join(parts) is "".
summarise_python_file(fsys, p) ==
    LET r == read_text(fsys, p)
    IN IF r.ok /\ Parses(r.text) THEN <<>> ELSE <<"Could not parse file">>

\* paths ordered as their strings are
PathLess_by_string(p, q) == LexLess(StrOfPath(p), StrOfPath(q))

\* Path.__lt__: the lists of components are compared, component by component.
RECURSIVE PathLess(_, _)
PathLess(p, q) ==
    IF q = <<>> THEN FALSE
    ELSE IF p = <<>> THEN TRUE
    ELSE IF Head(p) # Head(q) THEN LexLess(Head(p), Head(q))
    ELSE PathLess(Tail(p), Tail(q))

\* sorted(paths)
RECURSIVE sorted(_)
sorted(S) ==
    IF S = {} THEN <<>>
    ELSE LET m == CHOOSE x \in S : \A y \in S \ {x} : PathLess(x, y)
         IN <<m>> \o sorted(S \ {m})

\* path.rglob("*.py"): every file or directory below the root whose name
\* ends in ".py"
rglob_py(fsys) == { p \in DOMAIN fsys \cup Dirs(fsys) : EndsWith(Name(p), DOT_PY) }

README_SNIPPET == 400

DescribePrompt(snippet, lines) ==
    <<"Provide an overall description of this project using the README snippet and summaries of each Python file.\n\nREADME:\n">>
    \o snippet
    \o <<"\n\nFile summaries:\n">>
    \o JoinLines(lines)

\* the prompts with fix's "+ content" left out
TransformPrompt_fix_without_content(k, par, text) ==
    IF k = "change"
    THEN <<"Modify the following Python file according to this instruction: ">>
         \o par \o <<".\n\n">> \o text
         \o <<"\n---\nReturn only the full modified file.">>
    ELSE IF k = "fix"
    THEN <<"Identify and fix bugs in the following Python file. Return the corrected file only.\n\n">>
    ELSE <<"Enhance the following Python file with this feature: ">>
         \o par \o <<".\n\n">> \o text
         \o <<"\n---\nReturn only the full enhanced file.">>

\* the prompt of change / fix / enhance
TransformPrompt(k, par, text) ==
    IF k = "change"
    THEN <<"Modify the following Python file according to this instruction: ">>
         \o par \o <<".\n\n">> \o text
         \o <<"\n---\nReturn only the full modified file.">>
    ELSE IF k = "fix"
    THEN <<"Identify and fix bugs in the following Python file. Return the corrected file only.\n\n">>
         \o text
    ELSE <<"Enhance the following Python file with this feature: ">>
         \o par \o <<".\n\n">> \o text
         \o <<"\n---\nReturn only the full enhanced file.">>

\* the head reading a missing target as empty, the way describe reads README.md
Prepare_missing_as_empty(fsys, file) ==
    IF ~Exists(fsys, file) THEN [pc |-> "ask", content |-> <<>>]
    ELSE LET r == read_text(fsys, file)
         IN IF r.ok THEN [pc |-> "ask", content |-> r.text]
            ELSE [pc |-> "crashed", content |-> <<>>]

\* The head of change / fix / enhance: the existence check, then the read.
Prepare(fsys, file) ==
    IF ~Exists(fsys, file) THEN [pc |-> "rejected", content |-> <<>>]
    ELSE LET r == read_text(fsys, file)
         IN IF r.ok THEN [pc |-> "ask", content |-> r.text]
            ELSE [pc |-> "crashed", content |-> <<>>]

Header(k) ==
    IF k = "change" THEN <<"\nGenerated change:\n">>
    ELSE IF k = "fix" THEN <<"\nSuggested fixes:\n">>
    ELSE <<"\nProposed enhancement:\n">>

Question(k) ==
    IF k = "change" THEN <<"Apply these changes?">>
    ELSE IF k = "fix" THEN <<"Apply these fixes?">>
    ELSE <<"Apply this enhancement?">>

\* the confirmation prompt put before the echoes
PresentLog_ask_first(k, text) ==
    << Ev("confirm", <<>>, Question(k)), Echo(Header(k)), Echo(text) >>

\* What a transform command puts on the terminal once ask_llm has returned:
\* the two echoes, then the click.confirm prompt.
PresentLog(k, text) ==
    << Echo(Header(k)), Echo(text), Ev("confirm", <<>>, Question(k)) >>

\* click.confirm with default=True
Confirm_default_yes(a) == IF a = "" THEN TRUE ELSE a = "y"

\* click.confirm(..., default=False) on the typed answer
Confirm(a) == IF a = "" THEN FALSE ELSE a = "y"

\* the write done whatever the confirmation
Apply_unconditional(fsys, p, text, yes) == write_text(fsys, p, text)

\* The branch on the confirmation: the file after it ...
Apply(fsys, p, text, yes) == IF yes THEN write_text(fsys, p, text) ELSE fsys

\* ... and its events.
ApplyLog(p, text, a) ==
    << Ev("answer", <<>>, <<a>>) >>
    \o IF Confirm(a) THEN << Ev("write", p, text), Echo(<<"File updated.">>) >>
       ELSE << Echo(<<"No changes made.">>) >>

Init ==
    /\ app = "none"
    /\ root \in BOOLEAN
    /\ fs \in (IF root THEN Trees ELSE {<<>>})
    /\ fs0 = fs
    /\ pc = "start"
    /\ cmd = "none"
    /\ model = "none"
    /\ target = <<>>
    /\ param = <<>>
    /\ content = <<>>
    /\ summaries = <<>>
    /\ prompt = <<>>
    /\ backend = NoOutcome
    /\ new_content = <<>>
    /\ answer = "none"
    /\ calls = <<>>
    /\ log = <<>>

\* cli: the group callback of code_assistant.py
cli ==
    /\ pc = "start"
    /\ app' = "code_assistant"
    /\ \E m \in Models : model' = m
    /\ IF root
       THEN pc' = "command" /\ log' = log
       ELSE /\ pc' = "rejected"
            /\ log' = Append(log, Ev("BadParameter", <<>>, <<"Directory does not exist.">>))
    /\ UNCHANGED <<root, fs, fs0, cmd, target, param, content, summaries, prompt,
                   backend, new_content, answer, calls>>

\* describe, up to the ask_llm call
describe ==
    /\ pc = "command"
    /\ app = "code_assistant"
    /\ cmd' = "describe"
    /\ LET readme  == <<README>>
           r       == read_text(fs, readme)
           files   == sorted(rglob_py(fs))
           lines   == [i \in 1..Len(files) |->
                          StrOfPath(files[i]) \o <<":", " ">>
                          \o summarise_python_file(fs, files[i])]
       IN IF Exists(fs, readme) /\ ~r.ok
          THEN /\ pc' = "crashed"
               /\ log' = Append(log, Ev("OSError", readme, <<>>))
               /\ UNCHANGED <<summaries, prompt>>
          ELSE /\ summaries' = lines
               /\ prompt' = DescribePrompt(
                               IF Exists(fs, readme) THEN Take(r.text, README_SNIPPET)
                               ELSE <<>>,
                               lines)
               /\ pc' = "ask"
               /\ log' = log
    /\ UNCHANGED <<app, root, fs, fs0, model, target, param, content, backend,
                   new_content, answer, calls>>

\* The body shared by change / fix / enhance, up to the ask_llm call.
Transform(k, file, par) ==
    /\ cmd' = k
    /\ target' = file
    /\ param' = par
    /\ LET r == Prepare(fs, file)
       IN /\ pc' = r.pc
          /\ content' = r.content
          /\ prompt' = IF r.pc = "ask" THEN TransformPrompt(k, par, r.content) ELSE <<>>
          /\ log' = IF r.pc = "rejected"
                    THEN Append(log, Ev("BadParameter", file,
                                        StrOfPath(file) \o <<" does not exist">>))
                    ELSE IF r.pc = "crashed"
                    THEN Append(log, Ev("OSError", file, <<>>))
                    ELSE log
    /\ UNCHANGED <<app, root, fs, fs0, model, summaries, backend, new_content,
                   answer, calls>>

change ==
    /\ pc = "command"
    /\ app = "code_assistant"
    /\ \E file \in FileArgs, instruction \in Instructions :
          Transform("change", file, instruction)

fix ==
    /\ pc = "command"
    /\ app = "code_assistant"
    /\ \E file \in FileArgs : Transform("fix", file, <<>>)

enhance ==
    /\ pc = "command"
    /\ app = "code_assistant"
    /\ \E file \in FileArgs, feature \in Instructions :
          Transform("enhance", file, feature)

\* The ask_llm call of a command and what the command does with the value
\* before it blocks again or ends.
generate ==
    /\ pc = "ask"
    /\ \E o \in Outcomes :
          LET r == ask_llm(o)
          IN /\ backend' = o
             /\ calls' = Append(calls, [model |-> model, prompt |-> prompt])
             /\ new_content' = r.value
             /\ IF r.raised
                THEN /\ pc' = "crashed"
                     /\ log' = Append(log, Ev("BaseException", <<>>, o.text))
                ELSE IF cmd = "describe"
                THEN /\ pc' = "done"
                     /\ log' = Append(log, Echo(r.value))
                ELSE /\ pc' = "confirm"
                     /\ log' = log \o PresentLog(cmd, r.value)
    /\ UNCHANGED <<app, root, fs, fs0, cmd, model, target, param, content,
                   summaries, prompt, answer>>

\* The user's answer to click.confirm and the branch taken on it.
confirm ==
    /\ pc = "confirm"
    /\ \E a \in Answers :
          /\ answer' = a
          /\ fs' = Apply(fs, target, new_content, Confirm(a))
          /\ log' = log \o ApplyLog(target, new_content, a)
    /\ pc' = "done"
    /\ UNCHANGED <<app, root, fs0, cmd, model, target, param, content, summaries,
                   prompt, backend, new_content, calls>>

----------------------------------------------------------------------------
(* application.py *)

StartsWith(s, t) == Len(s) >= Len(t) /\ SubSeq(s, 1, Len(t)) = t

Whitespace == {" ", "\n", "\r", "\t"}

\* str.strip()
RECURSIVE LStrip(_)
LStrip(s) == IF s # <<>> /\ Head(s) \in Whitespace THEN LStrip(Tail(s)) ELSE s

RECURSIVE RStrip(_)
RStrip(s) ==
    IF s # <<>> /\ s[Len(s)] \in Whitespace THEN RStrip(SubSeq(s, 1, Len(s) - 1)) ELSE s

Strip(s) == RStrip(LStrip(s))

\* f.readlines() on decoded text: the lines, each with its "\n" if it has one
RECURSIVE Lines(_)
Lines(s) ==
    IF s = <<>> THEN <<>>
    ELSE IF \E i \in 1..Len(s) : s[i] = "\n"
    THEN LET i == CHOOSE j \in 1..Len(s) :
                    s[j] = "\n" /\ \A h \in 1..(j - 1) : s[h] # "\n"
         IN <<SubSeq(s, 1, i)>> \o Lines(Drop(s, i + 1))
    ELSE <<s>>

DEF_ == <<"d", "e", "f", " ">>

\* the lines that, stripped, start with "def "
FuncLines(lines) == { i \in 1..Len(lines) : StartsWith(Strip(lines[i]), DEF_) }

DigitChar == <<"0", "1", "2", "3", "4", "5", "6", "7", "8", "9">>

\* str(n) for a natural number
RECURSIVE Dec(_)
Dec(n) == IF n < 10 THEN <<DigitChar[n + 1]>>
          ELSE Dec(n \div 10) \o <<DigitChar[(n % 10) + 1]>>

Upper(c) ==
    CASE c = "a" -> "A" [] c = "b" -> "B" [] c = "d" -> "D" [] c = "e" -> "E"
      [] c = "m" -> "M" [] c = "p" -> "P" [] c = "s" -> "S"
      [] c = "t" -> "T" [] c = "x" -> "X" [] c = "y" -> "Y" [] OTHER -> c

Lower(c) ==
    CASE c = "A" -> "a" [] c = "D" -> "d" [] c = "E" -> "e" [] c = "M" -> "m"
      [] c = "R" -> "r" [] OTHER -> c

\* str.capitalize()
Capitalize(s) ==
    IF s = <<>> THEN <<>>
    ELSE <<Upper(s[1])>> \o [i \in 1..(Len(s) - 1) |-> Lower(s[i + 1])]

\* Path.stem
Stem(name) == SubSeq(name, 1, Len(name) - Len(Suffix(name)))

README_PREVIEW == 200
MAX_LISTED == 3

TEST_ == <<"t", "e", "s", "t", "_">>

\* project_path / f"test_{filename}"
TestPath(filename) == <<TEST_ \o filename[1]>> \o Tail(filename)

\* the directory a path lies in exists (the project root always does)
ParentExists(fsys, p) == Len(p) = 1 \/ IsDir(fsys, SubSeq(p, 1, Len(p) - 1))

NEW_FUNCTION ==
    <<"\n\ndef new_feature():\n    \"\"\"A new feature added by the CLI tool.\"\"\"\n    print(\"Hello from the new feature!\")\n">>

TestContent(stem) ==
    <<"import unittest\nfrom ">> \o stem \o <<" import *\n\nclass Test">>
    \o Capitalize(stem)
    \o <<"(unittest.TestCase):\n    def test_basic(self):\n        self.assertTrue(True)  # Replace with real tests\n\nif __name__ == '__main__':\n    unittest.main()\n">>

\* Every order in which rglob may yield the entries.
Orders(S) ==
    { f \in [1..Cardinality(S) -> S] : \A x \in S : \E i \in 1..Cardinality(S) : f[i] = x }

\* cli: the group callback of application.py
app_cli ==
    /\ pc = "start"
    /\ app' = "application"
    /\ IF root
       THEN pc' = "command" /\ log' = log
       ELSE /\ pc' = "rejected"
            /\ log' = Append(log, Ev("BadParameter", <<>>, <<"Directory does not exist.">>))
    /\ UNCHANGED <<root, fs, fs0, cmd, model, target, param, content, summaries,
                   prompt, backend, new_content, answer, calls>>

\* the line describe prints for one Python file
FileLine(fsys, p) ==
    LET lines == Lines(read_text(fsys, p).text)
    IN <<" ", " ">> \o Name(p) \o <<":", " ">> \o Dec(Len(lines))
       \o <<" lines, ">> \o Dec(Cardinality(FuncLines(lines))) \o <<" functions">>

app_describe ==
    /\ pc = "command"
    /\ app = "application"
    /\ cmd' = "describe"
    /\ \E py_files \in Orders(rglob_py(fs)) :
          LET readme == <<README>>
              r      == read_text(fs, readme)
              listed == Take(py_files, MAX_LISTED)
              first  == IF Exists(fs, readme)
                        THEN <<"README snippet: ">> \o Take(r.text, README_PREVIEW) \o <<"...">>
                        ELSE <<"No README.md found.">>
              rest   == IF py_files # <<>>
                        THEN << <<"Found ">> \o Dec(Len(py_files)) \o <<" Python files:">> >>
                             \o [i \in 1..Len(listed) |-> FileLine(fs, listed[i])]
                        ELSE << <<"No Python files found.">> >>
          IN IF \/ (Exists(fs, readme) /\ ~r.ok)
                \/ \E i \in 1..Len(listed) : ~read_text(fs, listed[i]).ok
             THEN /\ pc' = "crashed"
                  /\ log' = Append(log, Ev("OSError", <<>>, <<>>))
             ELSE /\ pc' = "done"
                  /\ log' = Append(log, Echo(JoinLines(<<first>> \o rest)))
    /\ UNCHANGED <<app, root, fs, fs0, model, target, param, content, summaries,
                   prompt, backend, new_content, answer, calls>>

app_enhance ==
    /\ pc = "command"
    /\ app = "application"
    /\ cmd' = "enhance"
    /\ \E filename \in FileArgs :
          /\ target' = filename
          /\ IF ~Exists(fs, filename)
             THEN /\ pc' = "rejected"
                  /\ fs' = fs
                  /\ log' = Append(log, Ev("BadParameter", filename,
                               <<"File ">> \o StrOfPath(filename) \o <<" does not exist.">>))
             ELSE IF Suffix(Name(filename)) # DOT_PY
             THEN /\ pc' = "rejected"
                  /\ fs' = fs
                  /\ log' = Append(log, Ev("BadParameter", filename,
                               <<"Only .py files are supported for now.">>))
             ELSE IF IsDir(fs, filename)
             THEN /\ pc' = "crashed"
                  /\ fs' = fs
                  /\ log' = Append(log, Ev("OSError", filename, <<>>))
             ELSE /\ pc' = "done"
                  /\ fs' = append_text(fs, filename, NEW_FUNCTION)
                  /\ log' = log \o << Ev("append", filename, NEW_FUNCTION),
                                      Echo(<<"Added new_feature() to ">> \o StrOfPath(filename)) >>
    /\ UNCHANGED <<app, root, fs0, model, param, content, summaries, prompt,
                   backend, new_content, answer, calls>>

app_test ==
    /\ pc = "command"
    /\ app = "application"
    /\ cmd' = "test"
    /\ \E filename \in FileArgs :
          LET test_file == TestPath(filename)
              text      == TestContent(Stem(Name(filename)))
          IN /\ target' = filename
             /\ IF ~Exists(fs, filename)
                THEN /\ pc' = "rejected"
                     /\ fs' = fs
                     /\ log' = Append(log, Ev("BadParameter", filename,
                                  <<"File ">> \o StrOfPath(filename) \o <<" does not exist.">>))
                ELSE IF Suffix(Name(filename)) # DOT_PY
                THEN /\ pc' = "rejected"
                     /\ fs' = fs
                     /\ log' = Append(log, Ev("BadParameter", filename,
                                  <<"Only .py files are supported for now.">>))
                ELSE IF ~ParentExists(fs, test_file) \/ IsDir(fs, test_file)
                THEN /\ pc' = "crashed"
                     /\ fs' = fs
                     /\ log' = Append(log, Ev("OSError", test_file, <<>>))
                ELSE /\ pc' = "done"
                     /\ fs' = write_text(fs, test_file, text)
                     /\ log' = log \o << Ev("write", test_file, text),
                                         Echo(<<"Created test file: ">> \o Name(test_file)) >>
    /\ UNCHANGED <<app, root, fs0, model, param, content, summaries, prompt,
                   backend, new_content, answer, calls>>

----------------------------------------------------------------------------

Next ==
    \/ cli
    \/ describe
    \/ change
    \/ fix
    \/ enhance
    \/ generate
    \/ confirm
    \/ app_cli
    \/ app_describe
    \/ app_enhance
    \/ app_test

Spec == Init /\ [][Next]_vars

----------------------------------------------------------------------------
(* Properties *)

IsTransform == app = "code_assistant" /\ cmd \in {"change", "fix", "enhance"}

Events(e) == { i \in 1..Len(log) : log[i].ev = e }

\* the positions at which the user answered yes
Yes == { i \in Events("answer") : log[i].text = <<"y">> }

\* the positions at which the value ask_llm returned was echoed
Shown == { i \in Events("echo") : log[i].text = new_content }

\* some file was created, overwritten or appended to
Written == fs # fs0 \/ Events("write") # {} \/ Events("append") # {}

Last(s) == s[Len(s)]

\* C1 (as claimed): when the backend call of a transform command raised an
\* error, confirmation is never requested, no file is written and the command
\* ends with nothing applied.
C1_FailureIsNeverOffered ==
    (IsTransform /\ backend.kind = "Exception") =>
        /\ Events("confirm") = {}
        /\ Events("answer") = {}
        /\ ~Written

\* C2 (as claimed): in either program, no file is overwritten, appended to or
\* created unless the user answered yes earlier in the same run.
C2_EveryWriteIsConfirmed == Written => Yes # {}

\* C2 (amended): every command of code_assistant.py, and describe of
\* application.py, writes a file only after the user answered yes earlier in
\* the same run; enhance and test of application.py are the exceptions.
C2_AssistantWritesAreConfirmed ==
    (app = "application" /\ cmd \in {"enhance", "test"})
    \/ (Written => Yes # {})

C2_Witness == app = "code_assistant" /\ pc = "done" /\ fs # fs0

\* C3: a transform command whose model call succeeded and whose confirmation
\* was no or the default leaves every file as it was and reports
\* "No changes made.".
C3_DeclinedLeavesFile ==
    (IsTransform /\ pc = "done" /\ backend.kind = "return" /\ answer \in {"n", ""}) =>
        /\ fs = fs0
        /\ Events("write") = {}
        /\ Last(log) = Echo(<<"No changes made.">>)

C3_Witness ==
    /\ IsTransform /\ pc = "done" /\ backend.kind = "return"
    /\ answer = ""
    /\ new_content # fs0[target]

\* C4: in a transform command the returned text is echoed before the
\* confirmation prompt appears, the file is written at most once, and a write
\* comes after a yes that itself came after the echo.
C4_ShowThenAskThenWrite ==
    IsTransform =>
        /\ \A c \in Events("confirm") : \E d \in Shown : d < c
        /\ \A a \in Events("answer") : \E c \in Events("confirm") : c < a
        /\ Cardinality(Events("write")) <= 1
        /\ \A w \in Events("write") :
              /\ log[w].path = target
              /\ \E a \in Yes : a < w /\ \E d \in Shown : d < a
        /\ (fs # fs0 => Events("write") # {})
        /\ Events("append") = {}

C4_Witness == IsTransform /\ pc = "done" /\ Events("write") # {} /\ fs # fs0

\* C5: a transform command whose model call returned a text (the empty text
\* included) and whose confirmation was yes leaves the target holding exactly
\* that text, the other files as they were, and reports "File updated.".
C5_ConfirmedReplacesWholeFile ==
    (IsTransform /\ pc = "done" /\ backend.kind = "return" /\ answer = "y") =>
        /\ fs[target] = (IF backend.has THEN backend.text ELSE <<>>)
        /\ DOMAIN fs = DOMAIN fs0
        /\ \A q \in DOMAIN fs0 \ {target} : fs[q] = fs0[q]
        /\ Last(log) = Echo(<<"File updated.">>)

C5_Witness ==
    /\ IsTransform /\ pc = "done" /\ backend.kind = "return" /\ answer = "y"
    /\ backend.has /\ backend.text = <<>>
    /\ fs0[target] # <<>>

\* C6: a transform command whose target does not exist is rejected with no
\* model call, no confirmation prompt and no write.
C6_MissingTargetNeverReachesModel ==
    (IsTransform /\ ~Exists(fs0, target)) =>
        /\ pc = "rejected"
        /\ calls = <<>>
        /\ Events("confirm") = {}
        /\ ~Written

C6_Witness == IsTransform /\ root /\ ~Exists(fs0, target) /\ pc = "rejected"

\* C7 (as claimed): a transform command calls the model only for a target
\* that exists and has the .py extension.
C7_OnlyPythonTargetsReachModel ==
    (IsTransform /\ calls # <<>>) =>
        /\ IsFile(fs0, target)
        /\ Suffix(Name(target)) = DOT_PY

\* C8: when the backend call raises an error, ask_llm returns the text
\* "Error communicating with Ollama: " followed by the error's description,
\* and the command that called it goes on.
C8_GatewayTurnsErrorsIntoText ==
    (app = "code_assistant" /\ backend.kind = "Exception") =>
        /\ pc \in {"confirm", "done"}
        /\ new_content = <<"Error communicating with Ollama: ">> \o backend.text
        /\ Len(calls) = 1

C8_Witness ==
    /\ IsTransform /\ backend.kind = "Exception" /\ pc = "confirm"
    /\ backend.text # <<>>

\* C9: the prompt of change, fix and enhance holds the target's text as read,
\* whole and in one piece, and taking that piece out leaves exactly the
\* prompt the same command builds around the empty text.
C9_PromptEmbedsContent ==
    (IsTransform /\ IsFile(fs0, target)) =>
        LET frame == TransformPrompt(cmd, param, <<>>)
        IN /\ content = Universal(fs0[target])
           /\ Contains(prompt, content)
           /\ \E i \in 0..Len(frame) :
                 prompt = SubSeq(frame, 1, i) \o content \o SubSeq(frame, i + 1, Len(frame))

C9_Witness ==
    /\ IsTransform /\ cmd = "fix" /\ pc = "ask"
    /\ fs0[target] = <<"\r">> /\ content = <<"\n">>

\* the Python files of the initial tree
PyFiles == { p \in DOMAIN fs0 : EndsWith(Name(p), DOT_PY) }

LinePrefix(p) == StrOfPath(p) \o <<":", " ">>

\* the file a summary line is about
FileOfLine(line) == CHOOSE p \in PyFiles : StartsWith(line, LinePrefix(p))

\* describe has built its lines: one "<relative path>: <summary>" per Python
\* file, and they close the prompt.
OneLinePerFile ==
    /\ Len(summaries) = Cardinality(PyFiles)
    /\ \A p \in PyFiles :
          \E i \in 1..Len(summaries) :
             summaries[i] = LinePrefix(p) \o summarise_python_file(fs0, p)
    /\ EndsWith(prompt, <<"\n\nFile summaries:\n">> \o JoinLines(summaries))

Described == app = "code_assistant" /\ cmd = "describe" /\ pc \in {"ask", "done"}

\* p is before q when their component lists are compared: at the first
\* component where they differ p's is the smaller string.
ComponentsBefore(p, q) ==
    \E k \in 1..Len(q) :
       /\ \A h \in 1..(k - 1) : h <= Len(p) /\ p[h] = q[h]
       /\ \/ k = Len(p) + 1
          \/ k <= Len(p) /\ LexLess(p[k], q[k])

\* C10 (as claimed): the summary lines of describe's prompt are in
\* lexicographic order of the relative path strings, one line per file.
C10_LinesInPathStringOrder ==
    Described =>
        /\ OneLinePerFile
        /\ \A i, j \in 1..Len(summaries) :
              i < j => LexLess(StrOfPath(FileOfLine(summaries[i])),
                               StrOfPath(FileOfLine(summaries[j])))

\* C10 (amended): the summary lines of describe's prompt are in the order of
\* the paths compared component by component, one line per file.
C10_LinesInComponentOrder ==
    Described =>
        /\ OneLinePerFile
        /\ \A i, j \in 1..Len(summaries) :
              i < j => ComponentsBefore(FileOfLine(summaries[i]),
                                        FileOfLine(summaries[j]))

C10_Witness ==
    /\ Described
    /\ PyFiles = { <<A_PY>>, <<A_DIR, B_PY>>, <<AB_DIR, X_PY>> }
    /\ Len(summaries) = 3

====
